---- MODULE Spec2Model ----
(***************************************************************************)
(* A model of multimethods.py: the specificity predicate _is_a, the        *)
(* preference graph (_prefers, prefer) and the resolver of MultiMethod     *)
(* (find_best_method, get_method, __call__).                               *)
(*                                                                         *)
(* The module is Python 2 code (types.ClassType at line 50 exists only     *)
(* there), so the builtins have their Python 2 meaning: map() over several *)
(* iterables pads the shorter ones with None, and a dict is iterated in an *)
(* arbitrary order, modelled as any permutation of its keys.               *)
(***************************************************************************)
EXTENDS Integers, Sequences, FiniteSets, TLC

VARIABLES dispatchfn, methods, preferences, last, stack, retval

vars == <<dispatchfn, methods, preferences, last, stack, retval>>

(***************************************************************************)
(* Bounds of the model.                                                    *)
(***************************************************************************)
MaxPrefs == 2
MaxArity == 2
MaxEdges == 3

(***************************************************************************)
(* Values.  Every Python value the code handles is a record of one shape:  *)
(* k is its kind, n the name of a class, e the elements of a tuple.        *)
(***************************************************************************)
T(name) == [k |-> "type", n |-> name, e |-> <<>>]
Tup(s) == [k |-> "tuple", n |-> "", e |-> s]
NoneV == [k |-> "none", n |-> "None", e |-> <<>>]
Default == [k |-> "default", n |-> "Default", e |-> <<>>]
Anything == [k |-> "any", n |-> "Anything", e |-> <<>>]

\* The host's classes: class Animal(object), class Dog(Animal),
\* class Pet(object), class PetDog(Dog, Pet).
ClassNames == {"Animal", "Dog", "Pet", "PetDog"}

Bases(n) ==
    CASE n = "Animal" -> <<"object">>
      [] n = "Dog" -> <<"Animal">>
      [] n = "Pet" -> <<"object">>
      [] n = "PetDog" -> <<"Dog", "Pet">>
      [] OTHER -> <<>>

\* The length of the longest chain of bases above a value.
RECURSIVE Depth(_)
Depth(x) ==
    IF x.k /= "type" \/ Bases(x.n) = <<>> THEN 0
    ELSE LET ds == {Depth(T(Bases(x.n)[i])) : i \in DOMAIN Bases(x.n)}
         IN 1 + CHOOSE d \in ds : \A d2 \in ds : d2 <= d

\* _parents that also yields the patterns x is preferred over, so that the
\* recursion of _prefers would follow preference edges.
ParentsAndPreferred(x) ==
    LET bases == IF x.k = "type" THEN [i \in DOMAIN Bases(x.n) |-> T(Bases(x.n)[i])]
                 ELSE <<>>
        prefd == IF x \in DOMAIN preferences THEN preferences[x] ELSE {}
    IN bases \o (CHOOSE s \in [1..Cardinality(prefd) -> prefd] :
                    \A i, j \in DOMAIN s : i /= j => s[i] /= s[j])

\* _parents(x): x.__bases__ of a class, () of anything else.
Parents(x) ==
    IF x.k = "type" THEN [i \in DOMAIN Bases(x.n) |-> T(Bases(x.n)[i])] ELSE <<>>

\* issubclass(x, y) on two classes.
RECURSIVE IsSubclass(_, _)
IsSubclass(x, y) ==
    \/ x = y
    \/ \E i \in DOMAIN Parents(x) : IsSubclass(Parents(x)[i], y)

\* The i-th argument map() hands to its function: None past the end.
Padded(s, i) == IF i \in DOMAIN s THEN s[i] ELSE NoneV

MaxOf(a, b) == IF a >= b THEN a ELSE b
MinOf(a, b) == IF a <= b THEN a ELSE b

\* _is_a with map() stopping at the end of the shorter tuple, as zip() does.
RECURSIVE IsATruncating(_, _)
IsATruncating(x, y) ==
    IF x = y \/ y = Anything THEN TRUE
    ELSE IF x.k = "tuple" /\ y.k = "tuple"
         THEN \A i \in 1..MinOf(Len(x.e), Len(y.e)) : IsATruncating(x.e[i], y.e[i])
         ELSE x.k = "type" /\ y.k = "type" /\ IsSubclass(x, y)

\* _is_a(x, y)
RECURSIVE IsA(_, _)
IsA(x, y) ==
    IF x = y \/ y = Anything THEN TRUE
    ELSE IF x.k = "tuple" /\ y.k = "tuple"
         THEN \A i \in 1..MaxOf(Len(x.e), Len(y.e)) :
                 IsA(Padded(x.e, i), Padded(y.e, i))
         ELSE x.k = "type" /\ y.k = "type" /\ IsSubclass(x, y)

\* bool(x) for the values above.
Truthy(x) == ~(x = NoneV \/ (x.k = "tuple" /\ x.e = <<>>))

(***************************************************************************)
(* The preference graph.                                                   *)
(***************************************************************************)
\* xprefs is not None and y in xprefs
DirectPref(x, y) == x \in DOMAIN preferences /\ y \in preferences[x]

\* MultiMethod._prefers
RECURSIVE Prefers(_, _)
Prefers(x, y) ==
    \/ DirectPref(x, y)
    \/ \E i \in DOMAIN Parents(y) : Prefers(x, Parents(y)[i])
    \/ \E i \in DOMAIN Parents(x) : Prefers(Parents(x)[i], y)

\* _dominates without its "or _is_a(x, y)".
DominatesByPreferenceOnly(x, y) == Prefers(x, y)

\* MultiMethod._dominates
Dominates(x, y) == Prefers(x, y) \/ IsA(x, y)

(***************************************************************************)
(* Resolution.  order is the order in which the dict yields its keys.      *)
(***************************************************************************)
Perms(S) ==
    {s \in [1..Cardinality(S) -> S] : \A i, j \in DOMAIN s : i /= j => s[i] /= s[j]}

\* The loop of find_best_method raising on every undominated match, without
\* the test that the two patterns are bound to the same implementation.
RECURSIVE ScanNoIdentityTest(_, _, _, _)
ScanNoIdentityTest(dv, order, i, best) ==
    IF i > Len(order) THEN [raised |-> FALSE, best |-> best, k |-> NoneV]
    ELSE LET k == order[i] IN
         IF ~IsA(dv, k) THEN ScanNoIdentityTest(dv, order, i + 1, best)
         ELSE LET nb == IF best = NoneV \/ Dominates(k, best) THEN k ELSE best IN
              IF ~Dominates(nb, k)
              THEN [raised |-> TRUE, best |-> nb, k |-> k]
              ELSE ScanNoIdentityTest(dv, order, i + 1, nb)

\* The for loop of find_best_method from position i on, with the running
\* best; the result is the pattern returned, or the raised exception.
RECURSIVE Scan(_, _, _, _)
Scan(dv, order, i, best) ==
    IF i > Len(order) THEN [raised |-> FALSE, best |-> best, k |-> NoneV]
    ELSE LET k == order[i] IN
         IF ~IsA(dv, k) THEN Scan(dv, order, i + 1, best)
         ELSE LET nb == IF best = NoneV \/ Dominates(k, best) THEN k ELSE best IN
              IF ~Dominates(nb, k) /\ methods[nb] /= methods[k]
              THEN [raised |-> TRUE, best |-> nb, k |-> k]
              ELSE Scan(dv, order, i + 1, nb)

\* MultiMethod.find_best_method
FindBestMethod(dv, order) == Scan(dv, order, 1, NoneV)

\* MultiMethod.get_method: the pattern returned and where it came from, or
\* the DispatchException raised.
GetMethod(dv, order) ==
    LET t == FindBestMethod(dv, order) IN
    IF t.raised
    THEN [err |-> "ambiguous", target |-> NoneV, via |-> "scan", found |-> t.best]
    ELSE IF Truthy(t.best)
    THEN [err |-> "", target |-> t.best, via |-> "scan", found |-> t.best]
    ELSE IF Default \in DOMAIN methods
    THEN [err |-> "", target |-> Default, via |-> "default", found |-> t.best]
    ELSE [err |-> "nomatch", target |-> NoneV, via |-> "default", found |-> t.best]

(***************************************************************************)
(* The inputs.  A MultiMethod is built with one dispatch function; the     *)
(* dispatch values are the ones that function returns, and the patterns    *)
(* registered are of the same shape, Anything in the place of a class.     *)
(***************************************************************************)
DispatchFns == {"type_dispatch", "single_type_dispatch"}
Impls == {"f", "g"}
Classes == {T(n) : n \in ClassNames}
CallArities == {0, 1}

TuplesOver(S, lens) == UNION {{Tup(s) : s \in [1..n -> S]} : n \in lens}

\* type_dispatch(*args) and single_type_dispatch(*args) over the calls made:
\* no argument or one Animal or Dog under type_dispatch, one argument of any
\* class under single_type_dispatch.
DispatchVals(fn) ==
    IF fn = "type_dispatch"
    THEN TuplesOver({T("Animal"), T("Dog")}, CallArities)
    ELSE Classes

\* The patterns handed to addmethod and removemethod.
MethodKeys(fn) ==
    IF fn = "type_dispatch"
    THEN TuplesOver({T("Animal"), T("Dog")}, CallArities) \cup {Default}
    ELSE {T("Animal"), T("Dog"), T("Pet"), Anything}

\* The patterns handed to prefer: two per dispatch function, so that an edge
\* can relate two registered patterns directly ((Dog,) over (Animal,),
\* Animal over Pet) or through a base class (Animal over Pet makes Dog
\* preferred over Pet).
PreferVals(fn) ==
    IF fn = "type_dispatch"
    THEN {Tup(<<T("Animal")>>), Tup(<<T("Dog")>>)}
    ELSE {T("Animal"), T("Pet")}

\* The number of edges the preferences map holds.
NumPrefs ==
    Cardinality(UNION {{<<x, y>> : y \in preferences[x]} : x \in DOMAIN preferences})

\* What the last operation did: the operation, the arguments of a prefer or
\* the dispatch value and the target of a call (x, y), whether
\* it returned (ok) or which exception it raised (err), and for a call the
\* pattern the scan ended with (found), where the target came from (via) and
\* the implementation invoked (impl).
Outcome(op, x, y, err, found, via, impl) ==
    [op |-> op, x |-> x, y |-> y, ok |-> (err = ""), err |-> err,
     found |-> found, via |-> via, impl |-> impl]

(***************************************************************************)
(* The operations of MultiMethod.                                          *)
(***************************************************************************)
\* MultiMethod.__init__
Init ==
    /\ dispatchfn \in DispatchFns
    /\ methods = <<>>
    /\ preferences = <<>>
    /\ last = Outcome("init", NoneV, NoneV, "", NoneV, "", "")
    /\ stack = <<>>
    /\ retval = "none"

\* MultiMethod.addmethod
AddMethod(func, dispatchval) ==
    /\ methods' = [k \in DOMAIN methods \cup {dispatchval} |->
                      IF k = dispatchval THEN func ELSE methods[k]]
    /\ last' = Outcome("addmethod", NoneV, NoneV, "", NoneV, "", "")
    /\ UNCHANGED <<dispatchfn, preferences, stack, retval>>

\* MultiMethod.removemethod: del raises KeyError for a key not bound.
RemoveMethod(dispatchval) ==
    /\ IF dispatchval \in DOMAIN methods
       THEN /\ methods' = [k \in DOMAIN methods \ {dispatchval} |-> methods[k]]
            /\ last' = Outcome("removemethod", NoneV, NoneV, "", NoneV, "", "")
       ELSE /\ methods' = methods
            /\ last' = Outcome("removemethod", NoneV, NoneV, "KeyError", NoneV, "", "")
    /\ UNCHANGED <<dispatchfn, preferences, stack, retval>>

\* The else branch of prefer: the edge x -> y added to the map.
WithEdge(x, y) ==
    [k \in DOMAIN preferences \cup {x} |->
        IF k = x
        THEN (IF x \in DOMAIN preferences THEN preferences[x] ELSE {}) \cup {y}
        ELSE preferences[k]]

\* The test of prefer with its arguments the wrong way round.
PreferConflictSwapped(dispatchvalX, dispatchvalY) == Prefers(dispatchvalX, dispatchvalY)

\* The test that makes prefer raise.
PreferConflict(dispatchvalX, dispatchvalY) == Prefers(dispatchvalY, dispatchvalX)

\* MultiMethod.prefer
Prefer(dispatchvalX, dispatchvalY) ==
    /\ IF PreferConflict(dispatchvalX, dispatchvalY)
       THEN /\ preferences' = preferences
            /\ last' = Outcome("prefer", dispatchvalX, dispatchvalY, "conflict", NoneV, "", "")
       ELSE /\ preferences' = WithEdge(dispatchvalX, dispatchvalY)
            /\ last' = Outcome("prefer", dispatchvalX, dispatchvalY, "", NoneV, "", "")
    /\ UNCHANGED <<dispatchfn, methods, stack, retval>>

\* MultiMethod.__call__ on arguments whose dispatch value is dv, the dict
\* yielding its keys in the given order.
Call(dv, order) ==
    /\ \E r \in {GetMethod(dv, order)} :
          last' = Outcome("call", dv, r.target, r.err, r.found, r.via,
                          IF r.err = "" THEN methods[r.target] ELSE "")
    /\ UNCHANGED <<dispatchfn, methods, preferences, stack, retval>>

Next ==
    \/ \E func \in Impls, p \in MethodKeys(dispatchfn) : AddMethod(func, p)
    \/ \E p \in MethodKeys(dispatchfn) : RemoveMethod(p)
    \/ \E x, y \in PreferVals(dispatchfn) : Prefer(x, y)
    \/ \E dv \in DispatchVals(dispatchfn), order \in Perms(DOMAIN methods) : Call(dv, order)

Spec == Init /\ [][Next]_vars

(***************************************************************************)
(* A MultiMethod on which only prefer is called, over every class and      *)
(* Anything, until the map holds MaxPrefs edges.                           *)
(***************************************************************************)
InitPreferOnly ==
    /\ dispatchfn = "single_type_dispatch"
    /\ methods = <<>>
    /\ preferences = <<>>
    /\ last = Outcome("init", NoneV, NoneV, "", NoneV, "", "")
    /\ stack = <<>>
    /\ retval = "none"

NextPreferOnly ==
    \E x, y \in Classes \cup {Anything} :
        /\ PreferConflict(x, y) \/ DirectPref(x, y) \/ NumPrefs < MaxPrefs
        /\ Prefer(x, y)

SpecPreferOnly == InitPreferOnly /\ [][NextPreferOnly]_vars

(***************************************************************************)
(* _is_a called on two tuples of at most MaxArity classes or Anything.     *)
(***************************************************************************)
TupleArgs == TuplesOver({T("Animal"), T("Dog"), Anything}, 0..MaxArity)

InitIsA ==
    /\ dispatchfn = "type_dispatch"
    /\ methods = <<>>
    /\ preferences = <<>>
    /\ \E x, y \in TupleArgs : last = Outcome("args", x, y, "", NoneV, "", "")
    /\ stack = <<>>
    /\ retval = "none"

\* What a Python bool reads as.
PyBool(b) == IF b THEN "True" ELSE "False"

\* The call _is_a(x, y) and its return value.
IsACall ==
    /\ last.op = "args"
    /\ last' = [last EXCEPT !.op = "_is_a"]
    /\ retval' = PyBool(IsA(last.x, last.y))
    /\ UNCHANGED <<dispatchfn, methods, preferences, stack>>

SpecIsA == InitIsA /\ [][IsACall]_vars

(***************************************************************************)
(* One call of _prefers run step by step.  stack holds the activations of  *)
(* _prefers, the innermost last: its arguments x and y, the loop it is in  *)
(* (pc) and the index i of the parent it is at.  retval is the value the   *)
(* call that has just returned hands to its caller.  The preferences map   *)
(* is any map of at most MaxEdges edges, contradictory and cyclic ones     *)
(* included.                                                               *)
(***************************************************************************)
EdgeVals == {T("Animal"), T("Dog"), T("Pet")}

EdgeSets == {E \in SUBSET (EdgeVals \X EdgeVals) : Cardinality(E) <= MaxEdges}

MapOf(E) == [x \in {e[1] : e \in E} |-> {e[2] : e \in {d \in E : d[1] = x}}]

Frame(x, y) == [x |-> x, y |-> y, pc |-> "direct", i |-> 1]

Top == stack[Len(stack)]
Pop == SubSeq(stack, 1, Len(stack) - 1)
SetTop(f) == [stack EXCEPT ![Len(stack)] = f]

InitPrefersRun ==
    /\ dispatchfn = "single_type_dispatch"
    /\ methods = <<>>
    /\ \E E \in EdgeSets : preferences = MapOf(E)
    /\ \E x, y \in Classes :
          /\ last = Outcome("_prefers", x, y, "", NoneV, "", "")
          /\ stack = <<Frame(x, y)>>
    /\ retval = "none"

\* xprefs = self.preferences.get(x); if xprefs is not None and y in xprefs:
\* return True
PrefersDirect ==
    /\ stack /= <<>> /\ retval = "none" /\ Top.pc = "direct"
    /\ IF DirectPref(Top.x, Top.y)
       THEN stack' = Pop /\ retval' = "True"
       ELSE stack' = SetTop([Top EXCEPT !.pc = "parents_y", !.i = 1]) /\ retval' = retval
    /\ UNCHANGED <<dispatchfn, methods, preferences, last>>

\* for p in _parents(y): the call self._prefers(x, p), or the end of the loop
PrefersParentY ==
    /\ stack /= <<>> /\ retval = "none" /\ Top.pc = "parents_y"
    /\ IF Top.i \in DOMAIN Parents(Top.y)
       THEN stack' = Append(stack, Frame(Top.x, Parents(Top.y)[Top.i]))
       ELSE stack' = SetTop([Top EXCEPT !.pc = "parents_x", !.i = 1])
    /\ UNCHANGED <<dispatchfn, methods, preferences, last, retval>>

\* for p in _parents(x): the call self._prefers(p, y), or return False
PrefersParentX ==
    /\ stack /= <<>> /\ retval = "none" /\ Top.pc = "parents_x"
    /\ IF Top.i \in DOMAIN Parents(Top.x)
       THEN stack' = Append(stack, Frame(Parents(Top.x)[Top.i], Top.y)) /\ retval' = retval
       ELSE stack' = Pop /\ retval' = "False"
    /\ UNCHANGED <<dispatchfn, methods, preferences, last>>

\* if self._prefers(...): return True, and the next parent otherwise
PrefersResume ==
    /\ stack /= <<>> /\ retval /= "none"
    /\ IF retval = "True"
       THEN stack' = Pop /\ retval' = retval
       ELSE stack' = SetTop([Top EXCEPT !.i = @ + 1]) /\ retval' = "none"
    /\ UNCHANGED <<dispatchfn, methods, preferences, last>>

NextPrefersRun == PrefersDirect \/ PrefersParentY \/ PrefersParentX \/ PrefersResume

\* The interpreter runs the call on: a step that can be taken is taken.
SpecPrefersRun == InitPrefersRun /\ [][NextPrefersRun]_vars /\ WF_vars(NextPrefersRun)

(***************************************************************************)
(* The claims.                                                             *)
(***************************************************************************)

\* C1: when get_method returns a pattern b found by the scan, b dominates
\* every other registered pattern that matches the dispatch value and is
\* bound to a different implementation.
C1_ReturnedPatternDominates ==
    (last.op = "call" /\ last.ok /\ last.via = "scan") =>
        \A k \in DOMAIN methods :
            (k /= last.y /\ IsA(last.x, k) /\ methods[k] /= methods[last.y])
                => Dominates(last.y, k)

\* C2: resolution does not depend on the order in which the registered
\* patterns are scanned: every order selects the implementation the call
\* selected, or every order raises as the call did.
C2_OrderIndependent ==
    last.op = "call" =>
        \A order \in Perms(DOMAIN methods) :
            \E r \in {GetMethod(last.x, order)} :
                /\ (r.err = "") = last.ok
                /\ last.ok => methods[r.target] = last.impl

\* C3: after any sequence of prefer calls there are no two patterns X and Y,
\* distinct or equal, with both _prefers(X, Y) and _prefers(Y, X).
C3_NoContradictoryPair ==
    \A x, y \in Classes \cup {Anything} : ~(Prefers(x, y) /\ Prefers(y, x))

\* C4: a prefer(Y, X) that immediately follows a successful prefer(X, Y)
\* raises the preference conflict and leaves the preferences map and the
\* methods registry as they were.
C4_ReversePreferRaises ==
    [][(/\ last.op = "prefer" /\ last.ok
        /\ last'.op = "prefer" /\ last'.x = last.y /\ last'.y = last.x)
       => (/\ last'.err = "conflict"
           /\ preferences' = preferences
           /\ methods' = methods)]_vars

\* C4 witness: a prefer(Y, X) has raised on a MultiMethod that holds
\* bindings and the edge X -> Y.
C4_Witness ==
    /\ last.op = "prefer" /\ last.err = "conflict"
    /\ last.x /= last.y
    /\ DirectPref(last.y, last.x)
    /\ DOMAIN methods /= {}

\* C5: the fallback of get_method is taken if and only if no registered
\* pattern matches the dispatch value: a call that does not raise the
\* ambiguity error returns the pattern the scan found and invokes its
\* implementation whenever some pattern matches, and only otherwise returns
\* Default (when bound) or raises the no-matching-method error.
C5_FallbackOnlyWithoutMatch ==
    (last.op = "call" /\ last.err /= "ambiguous") =>
        IF \E k \in DOMAIN methods : IsA(last.x, k)
        THEN /\ last.ok /\ last.via = "scan"
             /\ last.y = last.found
             /\ last.impl = methods[last.found]
        ELSE /\ last.via = "default"
             /\ Default \in DOMAIN methods => (last.ok /\ last.y = Default)
             /\ Default \notin DOMAIN methods => last.err = "nomatch"

\* C6: with no preference, a pattern Sub and a pattern Super above it (a
\* strict superclass, or Anything; as bare patterns or position by position
\* in tuples of one arity) bound to distinct implementations, and no other
\* registered pattern matching, a call whose dispatch value is Sub selects
\* Sub's implementation and raises nothing, whatever the order of the scan.
C6_SpecificityWins ==
    (last.op = "call" /\ preferences = <<>>) =>
        \A sub, sup \in DOMAIN methods :
            LET Above(a, b) ==
                    \/ a.k = "type" /\ b = Anything
                    \/ a.k = "type" /\ b.k = "type" /\ a /= b /\ IsSubclass(a, b)
                Below ==
                    \/ Above(sub, sup)
                    \/ /\ sub.k = "tuple" /\ sup.k = "tuple"
                       /\ Len(sub.e) = Len(sup.e) /\ sub /= sup
                       /\ \A i \in DOMAIN sub.e :
                              sub.e[i] = sup.e[i] \/ Above(sub.e[i], sup.e[i])
            IN (/\ last.x = sub /\ Below
                /\ methods[sub] /= methods[sup]
                /\ \A k \in DOMAIN methods \ {sub, sup} : ~IsA(last.x, k))
               => (last.ok /\ last.y = sub /\ last.impl = methods[sub])

\* C6 witness: a call has resolved to Dog, or to (Dog,), with Animal, or
\* (Animal,), bound to another implementation and no preference recorded.
C6_Witness ==
    /\ last.op = "call" /\ preferences = <<>> /\ last.ok
    /\ \/ /\ last.x = T("Dog") /\ last.y = T("Dog")
          /\ T("Animal") \in DOMAIN methods
          /\ methods[T("Animal")] /= methods[T("Dog")]
          /\ Anything \notin DOMAIN methods
       \/ /\ last.x = Tup(<<T("Dog")>>) /\ last.y = Tup(<<T("Dog")>>)
          /\ Tup(<<T("Animal")>>) \in DOMAIN methods
          /\ methods[Tup(<<T("Animal")>>)] /= methods[Tup(<<T("Dog")>>)]

\* C7: when exactly two registered patterns match the dispatch value,
\* neither is _is_a the other and no explicit or propagated preference
\* relates them, a call raises the ambiguity error, invokes nothing and
\* leaves methods and preferences unchanged if they are bound to distinct
\* implementations, and selects their implementation without an error if
\* they are bound to the same one.
C7_TwoUnrelatedMatches ==
    [][(last'.op = "call") =>
        \A matching \in {{k \in DOMAIN methods : IsA(last'.x, k)}} :
            \A a, b \in matching :
                (/\ a /= b /\ matching = {a, b}
                 /\ ~IsA(a, b) /\ ~IsA(b, a)
                 /\ ~Prefers(a, b) /\ ~Prefers(b, a))
                => /\ methods' = methods /\ preferences' = preferences
                   /\ IF methods[a] /= methods[b]
                      THEN last'.err = "ambiguous" /\ last'.impl = ""
                      ELSE last'.ok /\ last'.impl = methods[a]]_vars

\* C7 witness: a call on a PetDog has raised the ambiguity error with Dog
\* and Pet the two matching patterns, a preference being recorded that
\* relates neither to the other.
C7_Witness ==
    /\ last.op = "call" /\ last.err = "ambiguous" /\ last.x = T("PetDog")
    /\ {k \in DOMAIN methods : IsA(last.x, k)} = {T("Dog"), T("Pet")}
    /\ preferences /= <<>>
    /\ ~Prefers(T("Dog"), T("Pet")) /\ ~Prefers(T("Pet"), T("Dog"))

\* C8: dominance is transitive through explicit preference edges: once
\* prefer(A, B) and prefer(B, C) have succeeded, _prefers(A, C) and so
\* _dominates(A, C) hold.
C8_TransitiveThroughEdges ==
    \A a, b, c \in Classes \cup {Anything} :
        (DirectPref(a, b) /\ DirectPref(b, c)) => (Prefers(a, c) /\ Dominates(a, c))

\* C9 as claimed: on two different tuples _is_a is true exactly when it is
\* true at every position below the length of the shorter one.
C9_TruncatesToShorter ==
    (last.op = "_is_a" /\ last.x /= last.y) =>
        retval = PyBool(\A i \in 1..MinOf(Len(last.x.e), Len(last.y.e)) :
                            IsA(last.x.e[i], last.y.e[i]))

\* C9 as amended: on two different tuples of classes and Anything, _is_a is
\* true exactly when the value is no longer than the pattern, it is true at
\* every position of the value, and every further element of the pattern
\* is Anything (the shorter tuple is read as padded with None).
C9_PadsWithNone ==
    (last.op = "_is_a" /\ last.x /= last.y) =>
        retval = PyBool(/\ Len(last.x.e) <= Len(last.y.e)
                        /\ \A i \in DOMAIN last.x.e : IsA(last.x.e[i], last.y.e[i])
                        /\ \A i \in DOMAIN last.y.e \ DOMAIN last.x.e :
                               last.y.e[i] = Anything)

\* C9 witness: _is_a has returned False for a value longer than its pattern
\* although it is true at every position of the pattern.
C9_Witness ==
    /\ last.op = "_is_a" /\ retval = "False"
    /\ Len(last.x.e) > Len(last.y.e) /\ last.y.e /= <<>>
    /\ \A i \in DOMAIN last.y.e : IsA(last.x.e[i], last.y.e[i])

\* C10: _prefers terminates on every pair of patterns and every preferences
\* map, and its activations never nest deeper than the sum of the lengths
\* of the base-class chains of its two arguments.
C10_PrefersTerminates ==
    /\ [](Len(stack) <= 1 + Depth(last.x) + Depth(last.y))
    /\ <>(stack = <<>> /\ retval /= "none")

\* C10 witness: the call on (PetDog, PetDog) has returned with the map
\* holding the cycle Animal over Dog, Dog over Pet, Pet over Animal.
C10_Witness ==
    /\ stack = <<>> /\ retval /= "none"
    /\ last.x = T("PetDog") /\ last.y = T("PetDog")
    /\ DirectPref(T("Animal"), T("Dog"))
    /\ DirectPref(T("Dog"), T("Pet"))
    /\ DirectPref(T("Pet"), T("Animal"))

====
